---- MODULE Spec2Model ----
(***************************************************************************)
(* Processor bring-up of the Polaris kernel (kernel/cpu/cpu.c): the        *)
(* per-core initialisation cpu_init, the secondary-core trampoline         *)
(* cpu_start and the bootstrap coordinator smp_init.                       *)
(*                                                                         *)
(* Register values are modelled as bit vectors: the set of the positions   *)
(* of the bits that are 1.  A 64-bit value is a subset of 0..63, a 32-bit  *)
(* value a subset of 0..31.  Addresses are integers.                       *)
(***************************************************************************)
EXTENDS Integers, Sequences, FiniteSets, TLC

\* ------------------------------------------------------------------ bounds
MaxCpus == 3
MaxWrites == 3

\* ------------------------------------------------------- program constants
StackSize == 32768
PtrSize == 8
SleepUsec == 50000
LegacyFpuSize == {9}        \* 512
PatHigh == {0, 2, 8}        \* 0x0105
CPUID_SMEP == 7
CPUID_SMAP == 20
CPUID_UMIP == 2
bit_XSAVE == 26
bit_AVX == 28
bit_AVX512F == 16
HeapBase == 1048576
TmpfsInitialSize == 4096

BSP == 0

\* --------------------------------------------------------- bit-vector ops
Word64 == 0..63
Word32 == 0..31

Bit(n) == {n}
Or(x, y) == x \cup y
And(x, y) == x \cap y
Shl64(x, k) == {b + k : b \in x} \cap Word64
Shr64(x, k) == {b - k : b \in {e \in x : e >= k}}
U32(x) == x \cap Word32
\* an int operand of a 64-bit operation is sign-extended
IntTo64(x) == IF 31 \in x THEN x \cup (32..63) ELSE x
NotInt(x) == Word32 \ x

\* ---------------------------------------------------------------- state
VARIABLES
  cpu_count,            \* smp_tag->cpu_count
  smp_info,             \* smp_tag->smp_info[]
  cpuid,                \* what each core's CPUID instruction reports
  pc,                   \* each core's position
  ret,                  \* where cpu_init returns to on each core
  rsp,                  \* stack pointer each core was started with
  cr0, cr4, xcr0, ac,   \* per-core control registers, XCR0, RFLAGS.AC
  msr277,               \* per-core page-attribute-table MSR, as EDX and EAX
  loc,                  \* cpu_init's locals b, c on each core
  cpu_fpu_storage_size, cpu_fpu_save, cpu_fpu_restore,
  cpu_lock,
  smp_i,                \* smp_init's loop index
  allocs,               \* allocations made so far: <<base, size>>
  console,              \* printf output
  lapic_calls,          \* arguments lapic_init was called with
  sleeps,               \* arguments hpet_usleep was called with
  wlog,                 \* per core: privileged register writes, in order
  trace,                \* per core: steps of the trampoline, in order
  fpu_writes,           \* cores that stored the save/restore strategy
  res,                  \* the tmpfs_resource devtmpfs_open created
  inode_counter,        \* devtmpfs.c's inode counter
  last_read,            \* what the last devtmpfs_read copied
  nwrites               \* devtmpfs_write calls made so far

hw == <<cpu_count, smp_info, cpuid>>
regs == <<cr0, cr4, xcr0, msr277, ac>>
fpu == <<cpu_fpu_storage_size, cpu_fpu_save, cpu_fpu_restore, fpu_writes>>
smpv == <<smp_i, allocs, sleeps>>
tmpfs == <<res, inode_counter, last_read, nwrites>>
cpuv == <<cpu_count, smp_info, cpuid, pc, ret, rsp, cr0, cr4, xcr0, msr277, ac,
          loc, cpu_fpu_storage_size, cpu_fpu_save, cpu_fpu_restore, cpu_lock,
          smp_i, allocs, console, lapic_calls, sleeps, wlog, trace,
          fpu_writes>>
vars == <<cpu_count, smp_info, cpuid, pc, ret, rsp, cr0, cr4, xcr0, msr277, ac,
          loc, cpu_fpu_storage_size, cpu_fpu_save, cpu_fpu_restore, cpu_lock,
          smp_i, allocs, console, lapic_calls, sleeps, wlog, trace,
          fpu_writes, res, inode_counter, last_read, nwrites>>

\* the cores that run when the list reports n: the primary, whatever the
\* list says, and the cores of the list
CoresOf(n) == {BSP} \cup 0..(n - 1)

\* the entries of smp_info
Entries == 0..(cpu_count - 1)

\* the cores that run
Cores == CoresOf(cpu_count)

\* ------------------------------------------------------- hardware: CPUID
\* Required XSAVE area size the processor reports (leaf 0xD), as a bit
\* vector: 576, 832 or 2688 bytes.
XsaveAreaSize(l1c, l7b) ==
  IF bit_XSAVE \notin l1c THEN {}
  ELSE IF bit_AVX512F \in l7b THEN {7, 9, 11}
  ELSE IF bit_AVX \in l1c THEN {6, 8, 9}
  ELSE {6, 9}

\* A processor's identification data: highest basic leaf, leaf 1 ECX,
\* leaf 7 EBX and ECX, leaf 0xD ECX.  AVX needs XSAVE, AVX-512 needs AVX,
\* XSAVE comes with leaf 0xD; a processor without leaf 7 reports nothing
\* under it.
CpuidData(L1, L7b, L7c) ==
  {[maxleaf |-> ml, l1c |-> a, l7b |-> b, l7c |-> c,
    xsize |-> XsaveAreaSize(a, b)] :
     ml \in {6, 13}, a \in SUBSET L1, b \in SUBSET L7b, c \in SUBSET L7c}

RealCpuid(d) ==
  /\ bit_AVX \in d.l1c => bit_XSAVE \in d.l1c
  /\ bit_AVX512F \in d.l7b => bit_AVX \in d.l1c
  /\ bit_XSAVE \in d.l1c => d.maxleaf >= 13
  /\ d.maxleaf < 7 => d.l7b = {} /\ d.l7c = {}

AllCpuid ==
  {d \in CpuidData({bit_XSAVE, bit_AVX},
                   {CPUID_SMEP, bit_AVX512F, CPUID_SMAP},
                   {CPUID_UMIP, 9}) : RealCpuid(d)}

\* the processors of the multiprocessor runs
SmpCpuid ==
  {d \in AllCpuid :
     /\ d.l7c \subseteq {CPUID_UMIP}
     /\ d.l7b \in {{}, {CPUID_SMEP, CPUID_SMAP},
                   {CPUID_SMEP, CPUID_SMAP, bit_AVX512F}}
     /\ d.maxleaf = 13 => bit_XSAVE \in d.l1c
     /\ bit_AVX \in d.l1c <=> CPUID_SMAP \in d.l7b
     /\ CPUID_UMIP \in d.l7c <=> CPUID_SMAP \in d.l7b}

\* __get_cpuid(leaf, &a, &b, &c, &d): 0 and the outputs untouched when the
\* processor's highest leaf is below leaf, otherwise 1 and the outputs set.
\* Only b and c are ever read by cpu_init; leaf 7 is read at subleaf 0.
get_cpuid(d, leaf, old) ==
  IF d.maxleaf < leaf THEN [ok |-> FALSE, b |-> old.b, c |-> old.c]
  ELSE IF leaf = 1 THEN [ok |-> TRUE, b |-> {}, c |-> d.l1c]
  ELSE IF leaf = 7 THEN [ok |-> TRUE, b |-> d.l7b, c |-> d.l7c]
  ELSE [ok |-> TRUE, b |-> {}, c |-> {}]

\* ------------------------------------------------- register access layer
\* rdmsr: EDX:EAX composed into one 64-bit value
rdmsr(m) == Or(Shl64(m.edx, 32), m.eax)

\* wrmsr: the 64-bit value split into EDX (high half) and EAX (low half)
wrmsr(value) == [edx |-> U32(Shr64(value, 32)), eax |-> U32(value)]

\* wrxcr: xsetbv of EDX:EAX
wrxcr(value) == Or(Shl64(U32(Shr64(value, 32)), 32), U32(value))

\* a register write, with its value and the step of cpu_init that made it
Log(c, reg, val) ==
  wlog' = [wlog EXCEPT
             ![c] = Append(@, [reg |-> reg, val |-> val, at |-> pc[c]])]

Goto(c, l) == pc' = [pc EXCEPT ![c] = l]

\* ------------------------------------------------------ cpu_init, by step
\* cr0 &= ~(1 << 2); cr0 |= (1 << 1)
cr0_value(old) == Or(And(old, IntTo64(NotInt(Bit(2)))), IntTo64(Bit(1)))

cpu_init_cr0(c) ==
  /\ pc[c] = "ci_cr0"
  /\ cr0' = [cr0 EXCEPT ![c] = cr0_value(@)]
  /\ Log(c, "cr0", cr0'[c])
  /\ trace' = [trace EXCEPT ![c] = Append(@, "cpu_init")]
  /\ Goto(c, "ci_cr4_sse")
  /\ UNCHANGED <<tmpfs, hw, ret, rsp, cr4, xcr0, msr277, ac, loc, fpu, cpu_lock,
                 smpv, console, lapic_calls>>

\* a CR4 write of the mask alone, without the bits read before
cr4_set_overwrite(c, mask, next) ==
  /\ cr4' = [cr4 EXCEPT ![c] = IntTo64(mask)]
  /\ Log(c, "cr4", cr4'[c])
  /\ Goto(c, next)

\* a read-modify-write of CR4 that sets the bits of mask
cr4_set(c, mask, next) ==
  /\ cr4' = [cr4 EXCEPT ![c] = Or(@, IntTo64(mask))]
  /\ Log(c, "cr4", cr4'[c])
  /\ Goto(c, next)

\* cr4 |= (3 << 9)
cpu_init_cr4_sse(c) ==
  /\ pc[c] = "ci_cr4_sse"
  /\ cr4_set(c, {9, 10}, "ci_cr4_tsd")
  /\ UNCHANGED <<tmpfs, hw, ret, rsp, cr0, xcr0, msr277, ac, loc, fpu, cpu_lock,
                 smpv, console, lapic_calls, trace>>

\* cr4 |= (1 << 2)
cpu_init_cr4_tsd(c) ==
  /\ pc[c] = "ci_cr4_tsd"
  /\ cr4_set(c, Bit(2), "ci_smep")
  /\ UNCHANGED <<tmpfs, hw, ret, rsp, cr0, xcr0, msr277, ac, loc, fpu, cpu_lock,
                 smpv, console, lapic_calls, trace>>

\* the feature test of one of the leaf 7 blocks: the query succeeded and
\* the bit is reported in the register the block looks at
leaf7_has(r, reg, bit) == r.ok /\ bit \in (IF reg = "b" THEN r.b ELSE r.c)

\* an SMEP block that sets the bit without looking at the feature bit
cpu_init_smep_untested(c) ==
  /\ pc[c] = "ci_smep"
  /\ LET r == get_cpuid(cpuid[c], 7, loc[c]) IN
       loc' = [loc EXCEPT ![c] = [b |-> r.b, c |-> r.c]]
  /\ cr4_set(c, Bit(20), "ci_smap")
  /\ UNCHANGED <<tmpfs, hw, ret, rsp, cr0, xcr0, msr277, ac, fpu, cpu_lock,
                 smpv, console, lapic_calls, trace>>

\* if (__get_cpuid(7, ...)) if (b & CPUID_SMEP) cr4 |= (1 << 20)
cpu_init_smep(c) ==
  /\ pc[c] = "ci_smep"
  /\ LET r == get_cpuid(cpuid[c], 7, loc[c]) IN
       /\ loc' = [loc EXCEPT ![c] = [b |-> r.b, c |-> r.c]]
       /\ IF leaf7_has(r, "b", CPUID_SMEP)
            THEN cr4_set(c, Bit(20), "ci_smap")
            ELSE Goto(c, "ci_smap") /\ UNCHANGED <<cr4, wlog>>
  /\ UNCHANGED <<tmpfs, hw, ret, rsp, cr0, xcr0, msr277, ac, fpu, cpu_lock,
                 smpv, console, lapic_calls, trace>>

\* an SMAP block without the clac
cpu_init_smap_no_clac(c) ==
  /\ pc[c] = "ci_smap"
  /\ LET r == get_cpuid(cpuid[c], 7, loc[c]) IN
       /\ loc' = [loc EXCEPT ![c] = [b |-> r.b, c |-> r.c]]
       /\ IF leaf7_has(r, "b", CPUID_SMAP)
            THEN cr4_set(c, Bit(21), "ci_umip")
            ELSE Goto(c, "ci_umip") /\ UNCHANGED <<cr4, wlog>>
  /\ UNCHANGED <<tmpfs, hw, ret, rsp, cr0, xcr0, msr277, ac, fpu, cpu_lock,
                 smpv, console, lapic_calls, trace>>

\* if (__get_cpuid(7, ...)) if (b & CPUID_SMAP) cr4 |= (1 << 21)
cpu_init_smap(c) ==
  /\ pc[c] = "ci_smap"
  /\ LET r == get_cpuid(cpuid[c], 7, loc[c]) IN
       /\ loc' = [loc EXCEPT ![c] = [b |-> r.b, c |-> r.c]]
       /\ IF leaf7_has(r, "b", CPUID_SMAP)
            THEN cr4_set(c, Bit(21), "ci_clac")
            ELSE Goto(c, "ci_umip") /\ UNCHANGED <<cr4, wlog>>
  /\ UNCHANGED <<tmpfs, hw, ret, rsp, cr0, xcr0, msr277, ac, fpu, cpu_lock,
                 smpv, console, lapic_calls, trace>>

\* asm("clac")
cpu_init_clac(c) ==
  /\ pc[c] = "ci_clac"
  /\ ac' = [ac EXCEPT ![c] = FALSE]
  /\ Log(c, "rflags.ac", {})
  /\ Goto(c, "ci_umip")
  /\ UNCHANGED <<tmpfs, hw, ret, rsp, cr0, cr4, xcr0, msr277, loc, fpu,
                 cpu_lock,
                 smpv, console, lapic_calls, trace>>

\* if (__get_cpuid(7, ...)) if (c & CPUID_UMIP) cr4 |= (1 << 11)
cpu_init_umip(c) ==
  /\ pc[c] = "ci_umip"
  /\ LET r == get_cpuid(cpuid[c], 7, loc[c]) IN
       /\ loc' = [loc EXCEPT ![c] = [b |-> r.b, c |-> r.c]]
       /\ IF leaf7_has(r, "c", CPUID_UMIP)
            THEN cr4_set(c, Bit(11), "ci_pat")
            ELSE Goto(c, "ci_pat") /\ UNCHANGED <<cr4, wlog>>
  /\ UNCHANGED <<tmpfs, hw, ret, rsp, cr0, xcr0, msr277, ac, fpu, cpu_lock,
                 smpv, console, lapic_calls, trace>>

\* a PAT value computed without masking the old high half away
pat_value_unmasked(old) == Or(old, Shl64(PatHigh, 32))

\* pat_msr &= 0xFFFFFFFF; pat_msr |= (uint64_t)0x0105 << 32
pat_value(old) == Or(And(old, Word32), Shl64(PatHigh, 32))

\* a PAT step placed before the UMIP block
cpu_init_pat_early(c) ==
  /\ pc[c] = "ci_pat"
  /\ msr277' = [msr277 EXCEPT ![c] = wrmsr(pat_value(rdmsr(@)))]
  /\ Log(c, "msr277", rdmsr(msr277'[c]))
  /\ Goto(c, "ci_umip")
  /\ UNCHANGED <<tmpfs, hw, ret, rsp, cr0, cr4, xcr0, ac, loc, fpu, cpu_lock,
                 smpv, console, lapic_calls, trace>>

cpu_init_pat(c) ==
  /\ pc[c] = "ci_pat"
  /\ msr277' = [msr277 EXCEPT ![c] = wrmsr(pat_value(rdmsr(@)))]
  /\ Log(c, "msr277", rdmsr(msr277'[c]))
  /\ Goto(c, "ci_xsave")
  /\ UNCHANGED <<tmpfs, hw, ret, rsp, cr0, cr4, xcr0, ac, loc, fpu, cpu_lock,
                 smpv, console, lapic_calls, trace>>

\* __get_cpuid(1, ...); if ((c & bit_XSAVE)) cr4 |= (1 << 18) ... else
cpu_init_xsave(c) ==
  /\ pc[c] = "ci_xsave"
  /\ LET r == get_cpuid(cpuid[c], 1, loc[c]) IN
       /\ loc' = [loc EXCEPT ![c] = [b |-> r.b, c |-> r.c]]
       /\ IF bit_XSAVE \in r.c
            THEN cr4_set(c, Bit(18), "ci_xcr0")
            ELSE Goto(c, "ci_legacy") /\ UNCHANGED <<cr4, wlog>>
  /\ UNCHANGED <<tmpfs, hw, ret, rsp, cr0, xcr0, msr277, ac, fpu, cpu_lock,
                 smpv, console, lapic_calls, trace>>

\* a component mask that tests AVX in the leaf 7 output instead of leaf 1's
xcr0_value_stale_avx(c1, r) ==
  Or(Or(Or(Bit(0), Bit(1)),
        IF bit_AVX \in r.c THEN Bit(2) ELSE {}),
     IF leaf7_has(r, "b", bit_AVX512F) THEN {5, 6, 7} ELSE {})

\* the component mask built for XCR0: c is leaf 1 ECX, r the leaf 7 query
xcr0_value(c1, r) ==
  Or(Or(Or(Bit(0), Bit(1)),
        IF bit_AVX \in c1 THEN Bit(2) ELSE {}),
     IF leaf7_has(r, "b", bit_AVX512F) THEN {5, 6, 7} ELSE {})

cpu_init_xcr0(c) ==
  /\ pc[c] = "ci_xcr0"
  /\ LET r == get_cpuid(cpuid[c], 7, loc[c]) IN
       /\ loc' = [loc EXCEPT ![c] = [b |-> r.b, c |-> r.c]]
       /\ xcr0' = [xcr0 EXCEPT ![c] = wrxcr(xcr0_value(loc[c].c, r))]
  /\ Log(c, "xcr0", xcr0'[c])
  /\ Goto(c, "ci_fpu")
  /\ UNCHANGED <<tmpfs, hw, ret, rsp, cr0, cr4, msr277, ac, fpu, cpu_lock,
                 smpv, console, lapic_calls, trace>>

\* cpu_fpu_storage_size = (size_t)c, with c as the code left it
xsave_storage_size(l) == U32(l.c)

\* the save/restore pair of the XSAVE branch
xsave_pair == <<"xsave", "xrstor">>

\* the number a bit vector stands for, and the bit vector of a number
RECURSIVE Val(_)
Val(x) == IF x = {} THEN 0
          ELSE LET b == CHOOSE e \in x : TRUE IN 2 ^ b + Val(x \ {b})
Bits(n) == {b \in 0..30 : (n \div 2 ^ b) % 2 = 1}

\* a store that adds the size to the recorded one instead of replacing it
fpu_store_accumulate(c, size, pair) ==
  /\ cpu_fpu_storage_size' = Bits(Val(cpu_fpu_storage_size) + Val(size))
  /\ cpu_fpu_save' = pair[1]
  /\ cpu_fpu_restore' = pair[2]
  /\ fpu_writes' = Append(fpu_writes, c)

\* a store guarded so that only the first core to arrive makes it
fpu_store_first_only(c, size, pair) ==
  IF cpu_fpu_save = "null"
    THEN /\ cpu_fpu_storage_size' = size
         /\ cpu_fpu_save' = pair[1]
         /\ cpu_fpu_restore' = pair[2]
         /\ fpu_writes' = Append(fpu_writes, c)
    ELSE UNCHANGED fpu

\* the store of the strategy made by the core that runs cpu_init
fpu_store(c, size, pair) ==
  /\ cpu_fpu_storage_size' = size
  /\ cpu_fpu_save' = pair[1]
  /\ cpu_fpu_restore' = pair[2]
  /\ fpu_writes' = Append(fpu_writes, c)

cpu_init_fpu(c) ==
  /\ pc[c] = "ci_fpu"
  /\ fpu_store(c, xsave_storage_size(loc[c]), xsave_pair)
  /\ Goto(c, ret[c])
  /\ UNCHANGED <<tmpfs, hw, ret, rsp, regs, loc, cpu_lock, smpv, console,
                 lapic_calls, wlog, trace>>

\* a legacy branch that installs the XSAVE pair
cpu_init_legacy_xsave_pair(c) ==
  /\ pc[c] = "ci_legacy"
  /\ fpu_store(c, LegacyFpuSize, xsave_pair)
  /\ Goto(c, ret[c])
  /\ UNCHANGED <<tmpfs, hw, ret, rsp, regs, loc, cpu_lock, smpv, console,
                 lapic_calls, wlog, trace>>

\* cpu_fpu_storage_size = 512; cpu_fpu_save = fxsave; ...
cpu_init_legacy(c) ==
  /\ pc[c] = "ci_legacy"
  /\ fpu_store(c, LegacyFpuSize, <<"fxsave", "fxrstor">>)
  /\ Goto(c, ret[c])
  /\ UNCHANGED <<tmpfs, hw, ret, rsp, regs, loc, cpu_lock, smpv, console,
                 lapic_calls, wlog, trace>>

cpu_init(c) ==
  \/ cpu_init_cr0(c)
  \/ cpu_init_cr4_sse(c)
  \/ cpu_init_cr4_tsd(c)
  \/ cpu_init_smep(c)
  \/ cpu_init_smap(c)
  \/ cpu_init_clac(c)
  \/ cpu_init_umip(c)
  \/ cpu_init_pat(c)
  \/ cpu_init_xsave(c)
  \/ cpu_init_xcr0(c)
  \/ cpu_init_fpu(c)
  \/ cpu_init_legacy(c)

\* ------------------------------------------------------------- klibc lock
\* LOCK(l): spins until the lock is free and takes it in one atomic step
LOCK(l) == l = 0 /\ cpu_lock' = 1

\* UNLOCK(l): releases the lock
UNLOCK(l) == cpu_lock' = 0

\* ------------------------------------------------- cpu_start, by step
CpuInitPcs == {"ci_cr0", "ci_cr4_sse", "ci_cr4_tsd", "ci_smep", "ci_smap",
               "ci_clac", "ci_umip", "ci_pat", "ci_xsave", "ci_xcr0",
               "ci_fpu", "ci_legacy"}

Step(c, ev) == trace' = [trace EXCEPT ![c] = Append(@, ev)]

\* A secondary core leaves the boot loader's wait loop once its
\* goto_address is written, with target_stack as its stack pointer and
\* the address of its smp_info entry in RDI.
ap_start(c) ==
  /\ c # BSP
  /\ pc[c] = "off"
  /\ smp_info[c].goto_address = "cpu_start"
  /\ rsp' = [rsp EXCEPT ![c] = smp_info[c].target_stack]
  /\ Goto(c, "cs_lock")
  /\ UNCHANGED <<tmpfs, hw, ret, regs, loc, fpu, cpu_lock, smpv, console,
                 lapic_calls, wlog, trace>>

\* a trampoline that enters without taking the lock
cpu_start_lock_missing(c) ==
  /\ pc[c] = "cs_lock"
  /\ Step(c, "lock")
  /\ Goto(c, "cs_call")
  /\ UNCHANGED <<tmpfs, hw, ret, rsp, regs, loc, fpu, cpu_lock, smpv, console,
                 lapic_calls, wlog>>

\* LOCK(cpu_lock)
cpu_start_lock(c) ==
  /\ pc[c] = "cs_lock"
  /\ LOCK(cpu_lock)
  /\ Step(c, "lock")
  /\ Goto(c, "cs_call")
  /\ UNCHANGED <<tmpfs, hw, ret, rsp, regs, loc, fpu, smpv, console,
                 lapic_calls,
                 wlog>>

\* a trampoline that goes on without calling cpu_init
cpu_start_call_skipped(c) ==
  /\ pc[c] = "cs_call"
  /\ Goto(c, "cs_lapic")
  /\ UNCHANGED <<tmpfs, hw, ret, rsp, regs, loc, fpu, cpu_lock, smpv, console,
                 lapic_calls, wlog, trace>>

\* cpu_info = (void *)rdi; cpu_init().  RDI still holds the address of the
\* core's own smp_info entry: core c works on smp_info[c].
cpu_start_call(c) ==
  /\ pc[c] = "cs_call"
  /\ ret' = [ret EXCEPT ![c] = "cs_lapic"]
  /\ Goto(c, "ci_cr0")
  /\ UNCHANGED <<tmpfs, hw, rsp, regs, loc, fpu, cpu_lock, smpv, console,
                 lapic_calls, wlog, trace>>

\* the argument of lapic_init(cpu_info->processor_id)
lapic_arg(info) == info.processor_id

cpu_start_lapic(c) ==
  /\ pc[c] = "cs_lapic"
  /\ lapic_calls' = Append(lapic_calls,
                           [core |-> c, id |-> lapic_arg(smp_info[c])])
  /\ Step(c, "lapic_init")
  /\ Goto(c, "cs_print")
  /\ UNCHANGED <<tmpfs, hw, ret, rsp, regs, loc, fpu, cpu_lock, smpv, console,
                 wlog>>

\* printf("CPU: Processor %d online!\n", cpu_info->lapic_id)
cpu_start_print(c) ==
  /\ pc[c] = "cs_print"
  /\ console' = Append(console, <<"online", smp_info[c].lapic_id>>)
  /\ Step(c, "announce")
  /\ Goto(c, "cs_unlock")
  /\ UNCHANGED <<tmpfs, hw, ret, rsp, regs, loc, fpu, cpu_lock, smpv,
                 lapic_calls,
                 wlog>>

\* a trampoline that goes on to the halt loop without releasing the lock
cpu_start_unlock_missing(c) ==
  /\ pc[c] = "cs_unlock"
  /\ Step(c, "unlock")
  /\ Goto(c, "cs_hlt")
  /\ UNCHANGED <<tmpfs, hw, ret, rsp, regs, loc, fpu, cpu_lock, smpv,
                 console, lapic_calls, wlog>>

\* UNLOCK(cpu_lock)
cpu_start_unlock(c) ==
  /\ pc[c] = "cs_unlock"
  /\ UNLOCK(cpu_lock)
  /\ Step(c, "unlock")
  /\ Goto(c, "cs_hlt")
  /\ UNCHANGED <<tmpfs, hw, ret, rsp, regs, loc, fpu, smpv, console,
                 lapic_calls,
                 wlog>>

\* for (;;) asm("hlt"): the core parks; every later hlt changes nothing
cpu_start_hlt(c) ==
  /\ pc[c] = "cs_hlt"
  /\ Step(c, "hlt")
  /\ Goto(c, "halted")
  /\ UNCHANGED <<tmpfs, hw, ret, rsp, regs, loc, fpu, cpu_lock, smpv, console,
                 lapic_calls, wlog>>

cpu_start(c) ==
  \/ cpu_start_lock(c)
  \/ cpu_start_call(c)
  \/ cpu_start_lapic(c)
  \/ cpu_start_print(c)
  \/ cpu_start_unlock(c)
  \/ cpu_start_hlt(c)

\* ------------------------------------------------- smp_init, by step
\* alloc(size): the base of a fresh buffer, above everything handed out
alloc(log) ==
  IF log = <<>> THEN HeapBase
  ELSE log[Len(log)].base + log[Len(log)].size

\* the size of the stack smp_init asks the allocator for
smp_stack_size == StackSize

\* (uintptr_t)stack + sizeof(stack), stack being a uint8_t *
smp_target_stack(stack) == stack + PtrSize

\* a loop that leaves the primary core's entry out
smp_first_skip_bsp == BSP + 1

\* the first index of the loop over smp_info
smp_first == 0

\* printf("CPU: Total processor count: %d\n", smp_tag->cpu_count)
smp_init_print_count ==
  /\ pc[BSP] = "smp_print"
  /\ console' = Append(console, <<"count", cpu_count>>)
  /\ Goto(BSP, "smp_print_bsp")
  /\ UNCHANGED <<tmpfs, hw, ret, rsp, regs, loc, fpu, cpu_lock, smpv,
                 lapic_calls, wlog, trace>>

\* what a read of smp_info[0] past an empty list may find
StrayIds == {0, 255}

\* printf("CPU: Processor %d online!\n", smp_tag->smp_info[0].lapic_id);
\* with cpu_count = 0 the entry read lies past the list
smp_init_print_bsp ==
  /\ pc[BSP] = "smp_print_bsp"
  /\ IF 0 \in DOMAIN smp_info
       THEN console' = Append(console, <<"online", smp_info[0].lapic_id>>)
       ELSE \E v \in StrayIds : console' = Append(console, <<"online", v>>)
  /\ smp_i' = smp_first
  /\ Goto(BSP, "smp_loop")
  /\ UNCHANGED <<tmpfs, hw, ret, rsp, regs, loc, fpu, cpu_lock, allocs, sleeps,
                 lapic_calls, wlog, trace>>

\* a loop body that allocates the stack and never stores its address
smp_init_alloc_no_store ==
  /\ pc[BSP] = "smp_loop"
  /\ smp_i < cpu_count
  /\ allocs' = Append(allocs, [base |-> alloc(allocs),
                               size |-> smp_stack_size, for |-> smp_i])
  /\ Goto(BSP, "smp_goto")
  /\ UNCHANGED <<tmpfs, hw, ret, rsp, regs, loc, fpu, cpu_lock,
                 smp_i, sleeps, console, lapic_calls, wlog, trace>>

\* uint8_t *stack = alloc(32768); smp_info[i].target_stack = ...
smp_init_alloc ==
  /\ pc[BSP] = "smp_loop"
  /\ smp_i < cpu_count
  /\ LET stack == alloc(allocs) IN
       /\ allocs' = Append(allocs, [base |-> stack, size |-> smp_stack_size,
                                    for |-> smp_i])
       /\ smp_info' = [smp_info EXCEPT
                         ![smp_i].target_stack = smp_target_stack(stack)]
  /\ Goto(BSP, "smp_goto")
  /\ UNCHANGED <<tmpfs, cpu_count, cpuid, ret, rsp, regs, loc, fpu, cpu_lock,
                 smp_i, sleeps, console, lapic_calls, wlog, trace>>

\* a store of the entry address into the entry after the current one
smp_init_goto_next_entry ==
  /\ pc[BSP] = "smp_goto"
  /\ smp_info' = [i \in DOMAIN smp_info |->
                    IF i = smp_i + 1
                      THEN [smp_info[i] EXCEPT !.goto_address = "cpu_start"]
                      ELSE smp_info[i]]
  /\ smp_i' = smp_i + 1
  /\ Goto(BSP, "smp_loop")
  /\ UNCHANGED <<tmpfs, cpu_count, cpuid, ret, rsp, regs, loc, fpu, cpu_lock,
                 allocs, sleeps, console, lapic_calls, wlog, trace>>

\* smp_info[i].goto_address = (uintptr_t)cpu_start; ++i
smp_init_goto ==
  /\ pc[BSP] = "smp_goto"
  /\ smp_info' = [smp_info EXCEPT ![smp_i].goto_address = "cpu_start"]
  /\ smp_i' = smp_i + 1
  /\ Goto(BSP, "smp_loop")
  /\ UNCHANGED <<tmpfs, cpu_count, cpuid, ret, rsp, regs, loc, fpu, cpu_lock,
                 allocs, sleeps, console, lapic_calls, wlog, trace>>

\* a coordinator that waits for the lock to be free before the delay
smp_init_sleep_after_lock ==
  /\ pc[BSP] = "smp_loop"
  /\ smp_i >= cpu_count
  /\ cpu_lock = 0
  /\ sleeps' = Append(sleeps, SleepUsec)
  /\ Goto(BSP, "bsp_done")
  /\ UNCHANGED <<tmpfs, hw, ret, rsp, regs, loc, fpu, cpu_lock, smp_i,
                 allocs, console, lapic_calls, wlog, trace>>

\* hpet_usleep(50000), then return
smp_init_sleep ==
  /\ pc[BSP] = "smp_loop"
  /\ smp_i >= cpu_count
  /\ sleeps' = Append(sleeps, SleepUsec)
  /\ Goto(BSP, "bsp_done")
  /\ UNCHANGED <<tmpfs, hw, ret, rsp, regs, loc, fpu, cpu_lock, smp_i, allocs,
                 console, lapic_calls, wlog, trace>>

smp_init ==
  \/ smp_init_print_count
  \/ smp_init_print_bsp
  \/ smp_init_alloc
  \/ smp_init_goto
  \/ smp_init_sleep

NoRes == [open |-> FALSE]
NoRead == [done |-> FALSE]

\* ------------------------------------------------------- initial states
\* the boot hand-off's list of n cores; lapic ids are the core numbers
\* times stride
SmpInfo(n, stride) ==
  [i \in 0..(n - 1) |->
     [processor_id |-> i, lapic_id |-> i * stride,
      target_stack |-> 0, goto_address |-> "null"]]

ResetCr0 == {0, 4, 5, 16, 31}
ResetCr4 == {5}
ResetPat == {1, 2, 10, 16, 17, 18}

\* The primary core enters cpu_init from the kernel's entry point and goes
\* on to smp_init when it returns; the secondary cores wait in the boot
\* loader.
BspEntry(n) ==
  /\ pc = [i \in CoresOf(n) |-> IF i = BSP THEN "ci_cr0" ELSE "off"]
  /\ ret = [i \in CoresOf(n) |-> IF i = BSP THEN "smp_print" ELSE "none"]

InitRest(n) ==
  /\ rsp = [i \in CoresOf(n) |-> 0]
  /\ xcr0 = [i \in CoresOf(n) |-> {0}]
  /\ loc = [i \in CoresOf(n) |-> [b |-> {}, c |-> {}]]
  /\ cpu_fpu_storage_size = {}
  /\ cpu_fpu_save = "null"
  /\ cpu_fpu_restore = "null"
  /\ cpu_lock = 0
  /\ smp_i = 0
  /\ allocs = <<>>
  /\ console = <<>>
  /\ lapic_calls = <<>>
  /\ sleeps = <<>>
  /\ wlog = [i \in CoresOf(n) |-> <<>>]
  /\ trace = [i \in CoresOf(n) |-> <<>>]
  /\ fpu_writes = <<>>
  /\ res = NoRes
  /\ inode_counter = 1
  /\ last_read = NoRead
  /\ nwrites = 0

\* multiprocessor bring-up: every core in its reset state, with the
\* "access allowed" flag left set
Init ==
  \E n \in 1..MaxCpus, stride \in {1, 2} :
    /\ cpu_count = n
    /\ smp_info = SmpInfo(n, stride)
    /\ cpuid \in [CoresOf(n) -> SmpCpuid]
    /\ BspEntry(n)
    /\ cr0 = [i \in CoresOf(n) |-> ResetCr0]
    /\ cr4 = [i \in CoresOf(n) |-> ResetCr4]
    /\ msr277 = [i \in CoresOf(n) |-> [edx |-> ResetPat, eax |-> ResetPat]]
    /\ ac = [i \in CoresOf(n) |-> TRUE]
    /\ InitRest(n)

Next ==
  \/ \E c \in Cores : cpu_init(c)
  \/ \E c \in Cores : ap_start(c)
  \/ \E c \in Cores : cpu_start(c)
  \/ smp_init

Spec == Init /\ [][Next]_vars

\* ------------------------------------------- bring-up with cores that run
\* the same processor in every socket, from lo cores up
InitSame(lo) ==
  \E n \in lo..MaxCpus, d \in SmpCpuid :
    /\ cpu_count = n
    /\ smp_info = SmpInfo(n, 1)
    /\ cpuid = [i \in CoresOf(n) |-> d]
    /\ BspEntry(n)
    /\ cr0 = [i \in CoresOf(n) |-> ResetCr0]
    /\ cr4 = [i \in CoresOf(n) |-> ResetCr4]
    /\ msr277 = [i \in CoresOf(n) |-> [edx |-> ResetPat, eax |-> ResetPat]]
    /\ ac = [i \in CoresOf(n) |-> TRUE]
    /\ InitRest(n)

\* the instructions a core executes
CoreStep(c) == c \in Cores /\ (cpu_init(c) \/ ap_start(c) \/ cpu_start(c))

\* every core keeps executing: a core that can take a step takes one
SpecFair ==
  /\ InitSame(1)
  /\ [][Next]_vars
  /\ \A c \in 0..(MaxCpus - 1) : WF_vars(CoreStep(c))
  /\ WF_vars(smp_init)

\* only the primary core is known to keep executing; the list may be empty
SpecBsp ==
  /\ InitSame(0)
  /\ [][Next]_vars
  /\ WF_vars(cpu_init(BSP) \/ smp_init)

\* ------------------------------ cpu_init alone, over the register values
Cr0Values == {{}, {2}, ResetCr0, {1, 2, 31, 63}}
Cr4Values == {{}, ResetCr4, {2, 9, 21}, {5, 10, 18, 20, 31}}
HalfValues == {{}, ResetPat, {0, 31}, Word32}

InitCpu ==
  /\ cpu_count = 1
  /\ smp_info = SmpInfo(1, 1)
  /\ cpuid \in [{BSP} -> AllCpuid]
  /\ BspEntry(1)
  /\ cr0 \in [{BSP} -> Cr0Values]
  /\ cr4 \in [{BSP} -> Cr4Values]
  /\ msr277 \in [{BSP} -> [edx : HalfValues, eax : HalfValues]]
  /\ ac \in [{BSP} -> BOOLEAN]
  /\ InitRest(1)

NextCpu == cpu_init(BSP)

SpecCpu == InitCpu /\ [][NextCpu]_vars

\* ------------------------------------------------ devtmpfs (fs/devtmpfs.c)
\* offsets and counts the callers pass
Offsets == {0, 1, 4096, 6000}
Counts == {0, 1, 4096, 8192}

\* while (off + count > allocated_size) allocated_size *= 2
RECURSIVE grow(_, _)
grow(allocated_size, need) ==
  IF need > allocated_size THEN grow(allocated_size * 2, need)
  ELSE allocated_size

\* devtmpfs_open: NULL unless create; otherwise a resource with a buffer
\* of 4096 bytes, size 0 and the next inode number
devtmpfs_open(create) ==
  /\ ~res.open
  /\ IF create
       THEN /\ res' = [open |-> TRUE, allocated_size |-> TmpfsInitialSize,
                       st_size |-> 0, st_ino |-> inode_counter]
            /\ inode_counter' = inode_counter + 1
       ELSE UNCHANGED <<res, inode_counter>>
  /\ UNCHANGED <<cpuv, last_read, nwrites>>

\* the size recorded after a write of count bytes at off
write_st_size(st_size, off, count) == st_size + count

\* devtmpfs_write: grows the buffer to hold off + count, copies, and adds
\* count to the recorded size
devtmpfs_write(off, count) ==
  /\ res.open
  /\ nwrites < MaxWrites
  /\ res' = [res EXCEPT
               !.allocated_size = grow(@, off + count),
               !.st_size = write_st_size(@, off, count)]
  /\ nwrites' = nwrites + 1
  /\ UNCHANGED <<cpuv, inode_counter, last_read>>

\* devtmpfs_read: count is cut down by what off + count exceeds st_size
\* by, then count bytes are copied from data + off.  With off beyond
\* st_size the unsigned subtraction wraps: count is then recorded as the
\* negative number it wrapped from.
devtmpfs_read(off, count) ==
  /\ res.open
  /\ LET n == IF off + count > res.st_size
                THEN count - ((off + count) - res.st_size)
                ELSE count
     IN last_read' = [done |-> TRUE, off |-> off, count |-> n,
                      wrapped |-> n < 0]
  /\ UNCHANGED <<cpuv, res, inode_counter, nwrites>>

\* a file system with no resource yet, on a machine that has not booted
InitTmpfs ==
  /\ cpu_count = 1
  /\ smp_info = SmpInfo(1, 1)
  /\ cpuid \in [CoresOf(1) -> {d \in SmpCpuid : d.maxleaf = 6}]
  /\ BspEntry(1)
  /\ cr0 = [i \in CoresOf(1) |-> ResetCr0]
  /\ cr4 = [i \in CoresOf(1) |-> ResetCr4]
  /\ msr277 = [i \in CoresOf(1) |-> [edx |-> ResetPat, eax |-> ResetPat]]
  /\ ac = [i \in CoresOf(1) |-> TRUE]
  /\ InitRest(1)

NextTmpfs ==
  \/ \E create \in BOOLEAN : devtmpfs_open(create)
  \/ \E off \in Offsets, count \in Counts : devtmpfs_write(off, count)
  \/ \E off \in Offsets, count \in Counts : devtmpfs_read(off, count)

SpecTmpfs == InitTmpfs /\ [][NextTmpfs]_vars

\* ================================================================ claims
Secondaries == Cores \ {BSP}

\* core c is between LOCK(cpu_lock) and UNLOCK(cpu_lock) of cpu_start
InLocked(c) ==
  \/ pc[c] \in {"cs_call", "cs_lapic", "cs_print", "cs_unlock"}
  \/ pc[c] \in CpuInitPcs /\ ret[c] = "cs_lapic"

\* cpu_init has run to its end on core c
CpuInitDone(c) ==
  IF c = BSP THEN pc[c] \notin CpuInitPcs
  ELSE pc[c] \in {"cs_lapic", "cs_print", "cs_unlock", "cs_hlt", "halted"}

BringUpDone ==
  /\ pc[BSP] = "bsp_done"
  /\ \A c \in Secondaries : pc[c] = "halted"

HasXsave(c) == bit_XSAVE \in cpuid[c].l1c
HasSmap(c) == cpuid[c].maxleaf >= 7 /\ CPUID_SMAP \in cpuid[c].l7b
HasAvx512(c) == cpuid[c].maxleaf >= 7 /\ bit_AVX512F \in cpuid[c].l7b

Count(seq, x) == Cardinality({k \in 1..Len(seq) : seq[k] = x})

IsPrefix(p, q) == Len(p) <= Len(q) /\ \A k \in 1..Len(p) : p[k] = q[k]

\* C1: mutual exclusion -- in every reachable state at most one core is
\* between LOCK(cpu_lock) and UNLOCK(cpu_lock) of cpu_start, and so at most
\* one core is inside cpu_init, lapic_init or the announcement; the lock is
\* held whenever a core is in that region.
C1_MutualExclusion ==
  /\ \A c1, c2 \in Cores : InLocked(c1) /\ InLocked(c2) => c1 = c2
  /\ \A c1, c2 \in Cores :
       pc[c1] \in CpuInitPcs /\ pc[c2] \in CpuInitPcs => c1 = c2
  /\ \A c \in Cores : InLocked(c) => cpu_lock = 1

\* one secondary core is inside cpu_init under the lock while another one
\* has started and is waiting at LOCK
C1_Witness ==
  \E c1, c2 \in Secondaries :
    /\ c1 # c2
    /\ InLocked(c1) /\ pc[c1] \in CpuInitPcs
    /\ pc[c2] = "cs_lock"

\* C2: after smp_init, every core's target_stack is the base of the stack
\* allocated for it plus 32768.
C2_StackTop ==
  pc[BSP] = "bsp_done" =>
    \A i \in Entries :
      \E k \in 1..Len(allocs) :
        /\ allocs[k].for = i
        /\ smp_info[i].target_stack = allocs[k].base + 32768

\* C3 as stated: the strategy and the buffer size are written exactly
\* once, by one core, over the whole bring-up.
C3_WrittenOnce == Len(fpu_writes) <= 1

\* C3 amended: the strategy and the buffer size are written once by every
\* core that runs cpu_init (N writes for N cores); the first write is the
\* primary's and is made before any secondary core starts, and a
\* secondary core writes them only while it holds cpu_lock.
C3_WrittenOncePerCore ==
  /\ \A c \in Cores :
       Count(fpu_writes, c) = (IF CpuInitDone(c) THEN 1 ELSE 0)
  /\ (\E c \in Secondaries : pc[c] # "off") =>
       fpu_writes # <<>> /\ fpu_writes[1] = BSP
  /\ \A c \in Secondaries :
       pc[c] \in {"ci_fpu", "ci_legacy"} => cpu_lock = 1
  /\ BringUpDone => Len(fpu_writes) = cpu_count

\* three cores brought up, three writes of the strategy
C3_Witness ==
  /\ BringUpDone
  /\ cpu_count = 3
  /\ fpu_writes[1] = BSP
  /\ Len(fpu_writes) = 3

\* C4: when XSAVE is present, the buffer size cpu_init installs is the
\* save-area size the hardware reports, and is never 512.
C4_XsaveSizeReported ==
  \A c \in Cores :
    CpuInitDone(c) /\ HasXsave(c) /\ fpu_writes[Len(fpu_writes)] = c =>
      /\ cpu_fpu_storage_size = cpuid[c].xsize
      /\ cpu_fpu_storage_size # {9}

\* C5 as stated: when the AVX-512 bit is absent, cpu_init installs the
\* size 512 and the legacy pair.
C5_NoAvx512Legacy ==
  CpuInitDone(BSP) /\ ~HasAvx512(BSP) =>
    /\ cpu_fpu_storage_size = {9}
    /\ cpu_fpu_save = "fxsave"
    /\ cpu_fpu_restore = "fxrstor"

\* C5 amended: when the XSAVE bit is absent, cpu_init installs the size
\* 512 and the legacy pair (fxsave, fxrstor).
C5_NoXsaveLegacy ==
  CpuInitDone(BSP) /\ ~HasXsave(BSP) =>
    /\ cpu_fpu_storage_size = {9}
    /\ cpu_fpu_save = "fxsave"
    /\ cpu_fpu_restore = "fxrstor"

\* cpu_init has finished on a processor without XSAVE that has leaf 7
C5_Witness ==
  /\ CpuInitDone(BSP)
  /\ ~HasXsave(BSP)
  /\ HasSmap(BSP)
  /\ cpu_fpu_save = "fxsave"
  /\ cpu_fpu_storage_size = {9}

\* C6: when SMAP is available, the CR4 write that sets bit 21 is followed
\* by clac as the very next register update, so AC is clear when the SMAP
\* step is over; when it is not available, the step writes no register,
\* and nothing but clac ever changes AC.
C6_SmapThenClac ==
  [][\A c \in Cores :
       /\ (pc[c] = "ci_smap" /\ pc'[c] # "ci_smap") =>
            IF HasSmap(c)
              THEN /\ pc'[c] = "ci_clac"
                   /\ cr4'[c] = cr4[c] \cup {21}
                   /\ wlog'[c] = Append(wlog[c],
                                        [reg |-> "cr4", val |-> cr4'[c],
                                         at |-> "ci_smap"])
              ELSE /\ pc'[c] = "ci_umip"
                   /\ cr4'[c] = cr4[c]
                   /\ wlog'[c] = wlog[c]
       /\ (pc[c] = "ci_clac" /\ pc'[c] # "ci_clac") =>
            /\ pc'[c] = "ci_umip"
            /\ ac'[c] = FALSE
            /\ <<cr0'[c], cr4'[c], xcr0'[c], msr277'[c]>> =
                 <<cr0[c], cr4[c], xcr0[c], msr277[c]>>
            /\ wlog'[c] = Append(wlog[c], [reg |-> "rflags.ac", val |-> {},
                                           at |-> "ci_clac"])
       /\ (pc'[c] = "ci_umip" /\ HasSmap(c)) =>
            ac'[c] = FALSE /\ 21 \in cr4'[c]
       /\ pc[c] # "ci_clac" => ac'[c] = ac[c]
    ]_vars

\* the SMAP step is over on a processor that has SMAP: the last two
\* register updates are the CR4 write and the clac
C6_Witness ==
  /\ pc[BSP] = "ci_umip"
  /\ HasSmap(BSP)
  /\ ~ac[BSP]
  /\ 21 \in cr4[BSP]
  /\ Len(wlog[BSP]) >= 2
  /\ wlog[BSP][Len(wlog[BSP])].reg = "rflags.ac"
  /\ wlog[BSP][Len(wlog[BSP]) - 1].reg = "cr4"

\* C7: the PAT step leaves the low 32 bits of MSR 0x277 as they were and
\* makes the high 32 bits 0x00000105, whatever they were.
C7_PatStep ==
  [][\A c \in Cores :
       (pc[c] = "ci_pat" /\ pc'[c] # "ci_pat") =>
         /\ msr277'[c].eax = msr277[c].eax
         /\ msr277'[c].edx = {0, 2, 8}
         /\ U32(rdmsr(msr277'[c])) = U32(rdmsr(msr277[c]))
    ]_vars

\* the PAT step is over, on a register whose low half had bits 0 and 31
\* set and whose high half, now 0x105, was 0xFFFFFFFF, zero or 0x80000001
C7_Witness ==
  /\ pc[BSP] = "ci_xsave"
  /\ msr277[BSP] = [edx |-> {0, 2, 8}, eax |-> {0, 31}]
  /\ wlog[BSP][Len(wlog[BSP])] =
       [reg |-> "msr277", val |-> {0, 31, 32, 34, 40}, at |-> "ci_pat"]

\* C8: smp_init makes exactly cpu_count allocations, one per entry of
\* smp_info, the primary's included, each of 32768 bytes, and sets every
\* entry's goto_address to cpu_start.
C8_Allocations ==
  /\ Len(allocs) <= cpu_count
  /\ \A k \in 1..Len(allocs) : allocs[k].size = 32768 /\ allocs[k].for = k - 1
  /\ pc[BSP] = "bsp_done" =>
       /\ Len(allocs) = cpu_count
       /\ \A i \in Entries : smp_info[i].goto_address = "cpu_start"

\* smp_init has returned for three cores
C8_Witness ==
  /\ pc[BSP] = "bsp_done"
  /\ cpu_count = 3
  /\ Len(allocs) = 3
  /\ smp_info[BSP].goto_address = "cpu_start"

TrampolineOrder ==
  <<"lock", "cpu_init", "lapic_init", "announce", "unlock", "hlt">>

\* C9: a secondary core takes the steps of the trampoline in the order
\* lock, cpu_init, lapic_init, announcement, unlock, halt, each once: what
\* it has done so far is always a prefix of that sequence, a parked core
\* has done all of it, and the lock is free once every started core has
\* parked.
C9_TrampolineOrder ==
  /\ \A c \in Secondaries :
       /\ IsPrefix(trace[c], TrampolineOrder)
       /\ pc[c] = "halted" => trace[c] = TrampolineOrder
       /\ pc[c] \in {"cs_hlt", "halted"} => ~InLocked(c)
       /\ pc[c] \in {"cs_lapic", "cs_print", "cs_unlock"} =>
            Count(trace[c], "cpu_init") = 1
  /\ (\A c \in Secondaries : pc[c] \in {"off", "cs_hlt", "halted"}) =>
       cpu_lock = 0

\* two secondary cores have parked after the full sequence
C9_Witness ==
  \E c1, c2 \in Secondaries :
    /\ c1 # c2
    /\ pc[c1] = "halted" /\ trace[c1] = TrampolineOrder
    /\ pc[c2] = "halted" /\ trace[c2] = TrampolineOrder
    /\ cpu_lock = 0

\* C10: lapic_init is called with the lapic_id of the calling core's
\* descriptor, whether or not it equals the processor_id.
C10_LapicIdPassed ==
  \A k \in 1..Len(lapic_calls) :
    lapic_calls[k].id = smp_info[lapic_calls[k].core].lapic_id


HasSmep(c) == cpuid[c].maxleaf >= 7 /\ CPUID_SMEP \in cpuid[c].l7b
HasUmip(c) == cpuid[c].maxleaf >= 7 /\ CPUID_UMIP \in cpuid[c].l7c

\* C11: a missing capability is never an error -- whatever the processor
\* reports, leaf 7 absent included, cpu_init always has a next step until
\* it returns, it returns with a save/restore pair and a size stored, and
\* it sets CR4's SMEP, SMAP or UMIP bit only when that feature is reported.
C11_NoCapabilityNoError ==
  /\ [](\A c \in Cores :
          /\ pc[c] \in CpuInitPcs => ENABLED cpu_init(c)
          /\ CpuInitDone(c) =>
               /\ cpu_fpu_save \in {"xsave", "fxsave"}
               /\ cpu_fpu_restore \in {"xrstor", "fxrstor"}
               /\ Count(fpu_writes, c) = 1)
  /\ [][\A c \in Cores :
          /\ (20 \in cr4'[c] /\ 20 \notin cr4[c]) => HasSmep(c)
          /\ (21 \in cr4'[c] /\ 21 \notin cr4[c]) => HasSmap(c)
          /\ (11 \in cr4'[c] /\ 11 \notin cr4[c]) => HasUmip(c)
     ]_vars

\* cpu_init has returned on a processor without leaf 7: legacy pair
\* installed, none of the three bits set
C11_Witness ==
  /\ CpuInitDone(BSP)
  /\ cpuid[BSP].maxleaf < 7
  /\ cr4[BSP] \cap {11, 20, 21} = {}
  /\ cpu_fpu_save = "fxsave"
  /\ cpu_fpu_storage_size = {9}
  /\ Len(wlog[BSP]) = 4


SameCapabilities == \A c1, c2 \in Cores : cpuid[c1] = cpuid[c2]

\* C12: when all cores report the same capability set, the recording is
\* idempotent -- once the first cpu_init (the primary's) has completed, no
\* step of any core changes cpu_fpu_save, cpu_fpu_restore or
\* cpu_fpu_storage_size.
C12_RecordingIdempotent ==
  [][(SameCapabilities /\ CpuInitDone(BSP)) =>
       <<cpu_fpu_save, cpu_fpu_restore, cpu_fpu_storage_size>>' =
       <<cpu_fpu_save, cpu_fpu_restore, cpu_fpu_storage_size>>
    ]_vars

\* three cores with the same XSAVE-capable processor have all stored the
\* strategy, and it is the one the primary stored
C12_Witness ==
  /\ cpu_count = 3
  /\ SameCapabilities
  /\ HasXsave(BSP) /\ HasSmap(BSP)
  /\ Len(fpu_writes) = 3
  /\ cpu_fpu_save = "xsave"
  /\ cpu_fpu_storage_size = {CPUID_UMIP}


\* the number the spec gives to the step a register write belongs to
SpecStepOf(at) ==
  CASE at = "ci_cr0" -> 1
    [] at \in {"ci_cr4_sse", "ci_cr4_tsd"} -> 2
    [] at \in {"ci_smap", "ci_clac"} -> 3
    [] at = "ci_smep" -> 4
    [] at = "ci_umip" -> 5
    [] at = "ci_pat" -> 6
    [] OTHER -> 7

\* the place of a register write in the order of the source
CodeOrderOf(at) ==
  CASE at = "ci_cr0" -> 1
    [] at = "ci_cr4_sse" -> 2
    [] at = "ci_cr4_tsd" -> 3
    [] at = "ci_smep" -> 4
    [] at = "ci_smap" -> 5
    [] at = "ci_clac" -> 6
    [] at = "ci_umip" -> 7
    [] at = "ci_pat" -> 8
    [] at = "ci_xsave" -> 9
    [] OTHER -> 10

\* C13 as stated: the register writes of cpu_init come in the order CR0,
\* CR4 baseline, SMAP and clac, SMEP, UMIP, PAT, strategy selection.
C13_SpecOrder ==
  \A c \in Cores :
    \A j, k \in 1..Len(wlog[c]) :
      j < k => SpecStepOf(wlog[c][j].at) <= SpecStepOf(wlog[c][k].at)

\* C13 amended: the register writes of cpu_init come, each at most once,
\* in the order CR0, CR4 bits 9 and 10, CR4 bit 2, SMEP, SMAP and clac,
\* UMIP, PAT, CR4 XSAVE bit and XCR0; the save/restore strategy is stored
\* after all of them.
C13_CodeOrder ==
  \A c \in Cores :
    /\ \A j, k \in 1..Len(wlog[c]) :
         j < k => CodeOrderOf(wlog[c][j].at) < CodeOrderOf(wlog[c][k].at)
    /\ Count(fpu_writes, c) > 0 =>
         /\ CpuInitDone(c)
         /\ \E k \in 1..Len(wlog[c]) : wlog[c][k].at = "ci_pat"
         /\ wlog[c][1].at = "ci_cr0"

\* cpu_init has returned on a processor with SMEP, SMAP, UMIP and XSAVE:
\* ten register writes, SMEP's before SMAP's
C13_Witness ==
  /\ CpuInitDone(BSP)
  /\ HasSmep(BSP) /\ HasSmap(BSP) /\ HasUmip(BSP) /\ HasXsave(BSP)
  /\ Len(wlog[BSP]) = 10
  /\ wlog[BSP][4].at = "ci_smep"
  /\ wlog[BSP][5].at = "ci_smap"
  /\ wlog[BSP][10].reg = "xcr0"


Cr4Writes(c) == {k \in 1..Len(wlog[c]) : wlog[c][k].reg = "cr4"}

\* C14 as stated: when step 2 is over, one CR4 write has been made and the
\* global-page bit (7), bits 9 and 10 and bit 2 are all set.
C14_OneWriteFourBits ==
  \A c \in Cores :
    pc[c] = "ci_smep" =>
      /\ {2, 7, 9, 10} \subseteq cr4[c]
      /\ Cardinality(Cr4Writes(c)) = 1

\* C14 amended: step 2 makes two consecutive CR4 writes, the first setting
\* bits 9 and 10, the second bit 2; after them the three bits are set for
\* every initial CR4 value, and each write leaves every other bit, the
\* global-page bit (7) included, as it was.
C14_TwoWritesThreeBits ==
  /\ [](\A c \in Cores :
          pc[c] = "ci_smep" =>
            /\ {2, 9, 10} \subseteq cr4[c]
            /\ Cardinality(Cr4Writes(c)) = 2)
  /\ [][\A c \in Cores :
          /\ (pc[c] = "ci_cr4_sse" /\ pc'[c] # "ci_cr4_sse") =>
               pc'[c] = "ci_cr4_tsd" /\ cr4'[c] = cr4[c] \cup {9, 10}
          /\ (pc[c] = "ci_cr4_tsd" /\ pc'[c] # "ci_cr4_tsd") =>
               pc'[c] = "ci_smep" /\ cr4'[c] = cr4[c] \cup {2}
     ]_vars

\* step 2 is over on a core whose CR4 had bits 5, 18, 20 and 31 set and
\* bit 7 clear
C14_Witness ==
  /\ pc[BSP] = "ci_smep"
  /\ cr4[BSP] = {2, 5, 9, 10, 18, 20, 31}
  /\ Len(wlog[BSP]) = 3


HasAvx(c) == bit_AVX \in cpuid[c].l1c

\* the XCR0 write of cpu_init has been made on core c
Xcr0Written(c) == \E k \in 1..Len(wlog[c]) : wlog[c][k].reg = "xcr0"

\* C15 as stated: the value written to XCR0 has bits 0 and 1 set, bit 2
\* set exactly when AVX is reported, exactly two further bits (the 512-bit
\* components) set exactly when AVX-512F is reported, and no other bit.
C15_TwoAvx512Components ==
  \A c \in Cores :
    Xcr0Written(c) =>
      /\ {0, 1} \subseteq xcr0[c]
      /\ 2 \in xcr0[c] <=> HasAvx(c)
      /\ Cardinality(xcr0[c] \ {0, 1, 2}) = (IF HasAvx512(c) THEN 2 ELSE 0)

\* C15 amended: the value written to XCR0 has bits 0 and 1 set, bit 2 set
\* exactly when AVX is reported, the three AVX-512 component bits 5, 6
\* and 7 set exactly when AVX-512F is reported, and no other bit; the
\* write is made only when XSAVE is available.
C15_ThreeAvx512Components ==
  \A c \in Cores :
    /\ Xcr0Written(c) =>
         /\ HasXsave(c)
         /\ xcr0[c] = ({0, 1} \cup (IF HasAvx(c) THEN {2} ELSE {})
                              \cup (IF HasAvx512(c) THEN {5, 6, 7} ELSE {}))
    /\ (CpuInitDone(c) /\ HasXsave(c)) => Xcr0Written(c)

\* XCR0 has been written on a processor with AVX-512F
C15_Witness ==
  /\ pc[BSP] = "ci_fpu"
  /\ HasAvx512(BSP)
  /\ xcr0[BSP] = {0, 1, 2, 5, 6, 7}
  /\ wlog[BSP][Len(wlog[BSP])].val = {0, 1, 2, 5, 6, 7}


\* smp_init has written both fields of entry i
Published(i) ==
  /\ smp_info[i].goto_address = "cpu_start"
  /\ smp_info[i].target_stack # 0
  /\ \E k \in 1..Len(allocs) : allocs[k].for = i

\* C16 as stated: once any secondary core has started, every entry of the
\* list has its stack pointer and its entry address written.
C16_AllPublishedBeforeAnyStart ==
  (\E c \in Secondaries : pc[c] # "off") => \A i \in Entries : Published(i)

\* C16 amended: a secondary core starts only after smp_init has written
\* the stack pointer and the entry address of its own entry, and no field
\* of an entry is written after that entry's secondary core has started;
\* entries of other cores may still be unwritten then.
C16_OwnPublishedBeforeStart ==
  /\ [](\A c \in Secondaries : pc[c] # "off" => Published(c))
  /\ [][\A i \in Entries :
          smp_info'[i] # smp_info[i] => (i = BSP \/ pc[i] = "off")
     ]_vars

\* core 1 is running the trampoline while the entry of core 2 is still
\* unwritten
C16_Witness ==
  /\ cpu_count = 3
  /\ pc[1] \in {"cs_lock", "cs_call"}
  /\ Published(1)
  /\ smp_info[2].goto_address = "null"
  /\ smp_info[2].target_stack = 0


AllStartedParked == \A c \in Secondaries : pc[c] \in {"off", "cs_hlt", "halted"}

\* C17: when every core keeps executing, a secondary core that has entered
\* cpu_start reaches the halt loop, so none waits at LOCK for ever, and
\* the lock is free whenever all started cores are parked.
C17_EveryCoreParks ==
  /\ \A c \in 1..(MaxCpus - 1) :
       (c \in Cores /\ pc[c] = "cs_lock") ~> (c \in Cores /\ pc[c] = "halted")
  /\ [](AllStartedParked => cpu_lock = 0)

\* one core has parked and released the lock while another, started
\* later, is still at LOCK
C17_Witness ==
  \E c1, c2 \in Secondaries :
    /\ pc[c1] = "halted"
    /\ pc[c2] = "cs_lock"
    /\ cpu_lock = 0
    /\ pc[BSP] = "bsp_done"


SmpInitPcs == {"smp_print", "smp_print_bsp", "smp_loop", "smp_goto"}

\* C18: smp_init calls hpet_usleep once, with 50000, after every entry of
\* the list has been published; none of its steps waits for, takes or
\* releases cpu_lock or depends on what a secondary core does; and it
\* returns for every core count from 0 up, even when secondary cores
\* never start or stop half-way with the lock held.
C18_SmpInitTerminates ==
  /\ [](/\ Len(sleeps) <= 1
        /\ \A k \in 1..Len(sleeps) : sleeps[k] = 50000
        /\ sleeps # <<>> => \A i \in Entries : Published(i)
        /\ pc[BSP] = "bsp_done" => Len(sleeps) = 1
        /\ pc[BSP] \in SmpInitPcs => ENABLED smp_init)
  /\ [][(pc[BSP] \in SmpInitPcs /\ pc'[BSP] # pc[BSP]) =>
          cpu_lock' = cpu_lock
     ]_vars
  /\ <>(pc[BSP] = "bsp_done")

\* smp_init has returned while a secondary core is inside cpu_init with
\* the lock held and another has not started
C18_Witness ==
  /\ pc[BSP] = "bsp_done"
  /\ sleeps = <<50000>>
  /\ cpu_count = 3
  /\ pc[1] \in CpuInitPcs
  /\ pc[2] = "off"
  /\ cpu_lock = 1


\* C19: smp_init stores an entry's target_stack before its goto_address --
\* the step that stores goto_address finds target_stack already set and
\* leaves it alone -- so a core that has started took a stack pointer
\* that was set: the one in its entry, inside the stack allocated for it.
C19_StackBeforeEntryAddress ==
  /\ [][\A i \in Entries :
          smp_info'[i].goto_address # smp_info[i].goto_address =>
            /\ smp_info[i].target_stack # 0
            /\ smp_info'[i].target_stack = smp_info[i].target_stack
            /\ \E k \in 1..Len(allocs) : allocs[k].for = i
     ]_vars
  /\ [](\A c \in Secondaries :
          pc[c] # "off" =>
            /\ rsp[c] # 0
            /\ rsp[c] = smp_info[c].target_stack
            /\ \E k \in 1..Len(allocs) :
                 /\ allocs[k].for = c
                 /\ allocs[k].base <= rsp[c]
                 /\ rsp[c] <= allocs[k].base + allocs[k].size)

\* core 1 has started on its stack while smp_init is between the two
\* stores of the next entry
C19_Witness ==
  /\ pc[BSP] = "smp_goto"
  /\ smp_i = 2
  /\ pc[1] # "off"
  /\ rsp[1] = smp_info[1].target_stack
  /\ rsp[1] > HeapBase
  /\ smp_info[2].target_stack # 0
  /\ smp_info[2].goto_address = "null"


\* C20: for a resource devtmpfs_open created, after any writes st_size is
\* at most allocated_size, and a read cut down to st_size copies nothing
\* from beyond the allocated buffer.
C20_SizeWithinAllocation ==
  res.open =>
    /\ res.st_size <= res.allocated_size
    /\ (last_read.done /\ ~last_read.wrapped) =>
         last_read.off + last_read.count <= res.allocated_size

====
